---- MODULE Spec2Model ----
(***************************************************************************)
(* Model of the RAG chatbot repository.                                    *)
(*                                                                         *)
(*   Spec      : the FastAPI server of api/main.py (lifespan, /health,     *)
(*               /chat, /chat/session/{id}, /chat/clear) on top of         *)
(*               app/chatbot.py (RAGChatbot) and app/utils.py              *)
(*               (format_chat_history).  Every handler is an `async def`   *)
(*               without an await, so a handler runs to completion: one    *)
(*               action per handler.                                       *)
(*   SpecChunk : app/utils.py chunk_text as a pure function applied to     *)
(*               bounded inputs.                                           *)
(*   SpecIndex : src/build_index.py and app/retriever.py: build_index,     *)
(*               save_index, DocumentRetriever.__init__ and retrieve on    *)
(*               bounded data directories.                                 *)
(*   SpecUI    : app/streamlit_app.py and get_chatbot of app/chatbot.py,   *)
(*               one script thread per browser session.                    *)
(*   SpecLoop  : POST /chat requests that are in flight together, handled  *)
(*               by the event loop in any order.                           *)
(***************************************************************************)
EXTENDS Integers, Sequences, FiniteSets, TLC

\* ---------------------------------------------------------------- bounds
MaxRequests == 5
MaxTextLen == 7
MaxChunkSize == 3
MaxFiles == 2
MaxFileLen == 2
MaxK == 3
MaxUIChats == 2
MaxInFlight == 3

\* ------------------------------------------------------- program constants
HistoryWindow == 6
DefaultChunkSize == 512
DefaultOverlap == 50
QueryMinLength == 1
QueryMaxLength == 1000
HTTP_200 == 200
HTTP_404 == 404
HTTP_422 == 422
HTTP_500 == 500
HTTP_503 == 503

\* ------------------------------------------------------------ input sets
NoneVal == "None"
NoBot == 0
SessionIds == {"s1", "s2"}
ChatSessionInputs == SessionIds \cup {NoneVal, ""}
GoodQueries == {"q1", "q2"}
QueryInputs == GoodQueries \cup {NoneVal, "", "q1001"}
Answers == {"a1"}
GenOutcomes == [ok : {TRUE}, text : Answers] \cup [ok : {FALSE}, text : {"quota"}]
Chars == {"a", "b", " ", "\n"}
Whitespace == {" ", "\n"}
FileChars == {"a", " ", "\n", "#"}
UISessions == {"u1", "u2"}
ApiKeyInputs == {"", "k1", "k2"}
FileNames == {"a.txt", "b.txt", "notes.md"}

VARIABLES
    phase,             \* "created" (module imported), "serving", "stopped"
    startup_log,       \* what lifespan logged about the default chatbot
    env,               \* GEMINI_API_KEY set?  index files on disk?
    chatbot_instance,  \* api/main.py global: object id or NoBot
    sessions,          \* api/main.py global: session id -> object id
    heap,              \* RAGChatbot objects: id -> [history]
    last,              \* the request served last and its response
    served,            \* number of requests served
    text,              \* chunk_text input
    chunk_size,        \* chunk_text input
    overlap,           \* chunk_text input
    chunks,            \* chunk_text result
    cpc,               \* chunk_text: "call", "returned" or "raised"
    data_dir,          \* os.listdir(data_dir): the files, in listing order
    builder,           \* VectorIndexBuilder: [pc, documents, index]
    disk,              \* embeddings/: [saved, index, documents]
    retriever,         \* DocumentRetriever: [loaded, index, documents]
    search,            \* the last retrieve call: [pc, query, k, hits, results]
    _chatbot_instance, \* app/chatbot.py global: object id or NoBot
    ui_heap,           \* RAGChatbot objects of the UI process
    ui,                \* UI session -> [pc, api_key, chatbot]
    ui_chats,          \* number of prompts the UI has sent
    inflight,          \* POST /chat requests accepted and not yet handled
    handled            \* the handled requests of inflight, in handling order

vars == <<phase, startup_log, env, chatbot_instance, sessions, heap, last,
          served, text, chunk_size, overlap, chunks, cpc,
          data_dir, builder, disk, retriever, search,
          _chatbot_instance, ui_heap, ui, ui_chats, inflight, handled>>
serverVars == <<phase, startup_log, env, chatbot_instance, sessions, heap,
                last, served>>
chunkVars == <<text, chunk_size, overlap, chunks, cpc>>
indexVars == <<data_dir, builder, disk, retriever, search>>
uiVars == <<_chatbot_instance, ui_heap, ui, ui_chats>>
loopVars == <<inflight, handled>>

Min(a, b) == IF a <= b THEN a ELSE b
Max(a, b) == IF a >= b THEN a ELSE b

\* ------------------------------------------------------------------------
\* app/utils.py
\* ------------------------------------------------------------------------

\* str.split(): the maximal runs of non-whitespace characters, in order.
RECURSIVE SplitFrom(_, _, _)
SplitFrom(s, cur, acc) ==
    IF s = <<>>
    THEN IF cur = <<>> THEN acc ELSE Append(acc, cur)
    ELSE IF Head(s) \in Whitespace
         THEN SplitFrom(Tail(s), <<>>, IF cur = <<>> THEN acc ELSE Append(acc, cur))
         ELSE SplitFrom(Tail(s), Append(cur, Head(s)), acc)

Split(s) == SplitFrom(s, <<>>, <<>>)

\* ' '.join(ws)
RECURSIVE Join(_)
Join(ws) ==
    IF ws = <<>> THEN <<>>
    ELSE IF Len(ws) = 1 THEN ws[1]
    ELSE ws[1] \o <<" ">> \o Join(Tail(ws))

\* words[i:j] with 0 <= i, 0 <= j (Python slice, 0-based, clipped)
Slice(ws, i, j) == SubSeq(ws, i + 1, Min(j, Len(ws)))

ChunkSliceMut(ws, i, size) == Slice(ws, i, i + size + 1)

ChunkSlice(ws, i, size) == Slice(ws, i, i + size)

ChunkStepMut(size, ov) == size

ChunkStep(size, ov) == size - ov

RECURSIVE ChunkLoopFullOnly(_, _, _, _, _)
ChunkLoopFullOnly(ws, size, step, i, acc) ==
    IF i + size > Len(ws) THEN acc
    ELSE LET acc2 == Append(acc, Join(ChunkSlice(ws, i, size)))
         IN IF i + size >= Len(ws) THEN acc2
            ELSE ChunkLoopFullOnly(ws, size, step, i + step, acc2)

\* the for loop of chunk_text: i in range(0, len(words), step), step > 0
RECURSIVE ChunkLoop(_, _, _, _, _)
ChunkLoop(ws, size, step, i, acc) ==
    IF i >= Len(ws) THEN acc
    ELSE LET acc2 == Append(acc, Join(ChunkSlice(ws, i, size)))
         IN IF i + size >= Len(ws) THEN acc2
            ELSE ChunkLoop(ws, size, step, i + step, acc2)

\* chunk_text(text, chunk_size, overlap): [raised, chunks]
chunk_text(t, size, ov) ==
    LET words == Split(t)
        step == ChunkStep(size, ov)
    IN IF Len(words) <= size
       THEN [raised |-> FALSE, chunks |-> <<Join(words)>>]
       ELSE IF step = 0
            THEN [raised |-> TRUE, chunks |-> <<>>]      \* range() arg 3 must not be zero
            ELSE IF step < 0
                 THEN [raised |-> FALSE, chunks |-> <<>>] \* empty range
                 ELSE [raised |-> FALSE, chunks |-> ChunkLoop(words, size, step, 0, <<>>)]

\* re.sub(r'\s+', ' ', text): every run of whitespace becomes one space
RECURSIVE CollapseWhitespace(_, _)
CollapseWhitespace(s, inRun) ==
    IF s = <<>> THEN <<>>
    ELSE IF Head(s) \in Whitespace
         THEN (IF inRun THEN <<>> ELSE <<" ">>) \o CollapseWhitespace(Tail(s), TRUE)
         ELSE <<Head(s)>> \o CollapseWhitespace(Tail(s), FALSE)

\* the characters [\w\s.,!?;:] of the inputs
KeptChars == {"a", "b", " ", "\n"}

\* re.sub(r'[^\w\s.,!?;:]', '', text)
RemoveSpecial(s) == SelectSeq(s, LAMBDA c : c \in KeptChars)

\* str.strip()
RECURSIVE LStrip(_)
LStrip(s) ==
    IF s # <<>> /\ Head(s) \in Whitespace THEN LStrip(Tail(s)) ELSE s
RECURSIVE RStrip(_)
RStrip(s) ==
    IF s # <<>> /\ s[Len(s)] \in Whitespace
    THEN RStrip(SubSeq(s, 1, Len(s) - 1)) ELSE s
Strip(s) == RStrip(LStrip(s))

\* clean_text(text)
clean_text(t) == Strip(RemoveSpecial(CollapseWhitespace(t, FALSE)))

\* the documents of one file: one entry per chunk, chunk_id from 0
FileDocuments(file_path, content) ==
    LET cs == chunk_text(clean_text(content), DefaultChunkSize, DefaultOverlap).chunks
    IN [i \in 1..Len(cs) |->
          [content |-> cs[i], source |-> file_path, chunk_id |-> i - 1]]

\* load_documents(file_paths), files being [name, content] in path order
RECURSIVE load_documents(_)
load_documents(files) ==
    IF files = <<>> THEN <<>>
    ELSE FileDocuments(Head(files).name, Head(files).content)
           \o load_documents(Tail(files))

\* history[-6:]
LastMessagesMut(history) == history

LastMessages(history) ==
    SubSeq(history, Max(1, Len(history) - HistoryWindow + 1), Len(history))

\* f"{role}: {msg['content']}"
FormatMessage(msg) ==
    <<IF msg.role = "user" THEN "User" ELSE "Assistant", msg.content>>

\* format_chat_history(history): the lines that are joined with "\n"
format_chat_history(history) ==
    IF history = <<>> THEN <<>>
    ELSE LET tail == LastMessages(history)
         IN [i \in 1..Len(tail) |-> FormatMessage(tail[i])]

\* ------------------------------------------------------------------------
\* app/chatbot.py
\* ------------------------------------------------------------------------

\* RAGChatbot.__init__ raises ValueError without an API key and
\* FileNotFoundError (DocumentRetriever.__init__) without the index files.
RAGChatbot_init_ok == env.api_key /\ env.index_files

\* a fresh RAGChatbot object: self.history = []
NewChatbot == [history |-> <<>>]

\* retriever.get_context(query): the formatted top-k chunks for the query
get_context(query) == <<"context", query>>

\* _create_prompt(query, context, history): the three slots of the template
create_prompt(query, context, history) ==
    [history |-> history, context |-> context, query |-> query]

NoPrompt == create_prompt(NoneVal, <<>>, <<>>)

UpdateHistorySwapped(history, query, answer) ==
    history \o <<[role |-> "assistant", content |-> answer],
                 [role |-> "user", content |-> query]>>

UpdateHistoryMut(history, query, answer) == history

\* self.history.append(user); self.history.append(assistant)
UpdateHistory(history, query, answer) ==
    history \o <<[role |-> "user", content |-> query],
                 [role |-> "assistant", content |-> answer]>>

RAGChatbot_chatAlwaysHistory(hp, bot, query, use_history, gen) ==
    LET context == get_context(query)
        history_text == format_chat_history(hp[bot].history)
        prompt == create_prompt(query, context, history_text)
    IN IF gen.ok
       THEN [heap |-> [hp EXCEPT ![bot].history = UpdateHistory(@, query, gen.text)],
             text |-> <<gen.text>>,
             prompt |-> prompt]
       ELSE [heap |-> hp,
             text |-> <<"Error generating response: ", gen.text>>,
             prompt |-> prompt]

RAGChatbot_chatEarlyAppend(hp, bot, query, use_history, gen) ==
    LET context == get_context(query)
        history_text == IF use_history THEN format_chat_history(hp[bot].history)
                        ELSE <<>>
        prompt == create_prompt(query, context, history_text)
        asked == [hp EXCEPT ![bot].history =
                      Append(@, [role |-> "user", content |-> query])]
    IN IF gen.ok
       THEN [heap |-> [asked EXCEPT ![bot].history =
                           Append(@, [role |-> "assistant", content |-> gen.text])],
             text |-> <<gen.text>>,
             prompt |-> prompt]
       ELSE [heap |-> asked,
             text |-> <<"Error generating response: ", gen.text>>,
             prompt |-> prompt]

\* RAGChatbot.chat(query, use_history) on object bot of heap hp, where the
\* call of model.generate_content has outcome gen.
RAGChatbot_chat(hp, bot, query, use_history, gen) ==
    LET context == get_context(query)
        history_text == IF use_history THEN format_chat_history(hp[bot].history)
                        ELSE <<>>
        prompt == create_prompt(query, context, history_text)
    IN IF gen.ok
       THEN [heap |-> [hp EXCEPT ![bot].history = UpdateHistory(@, query, gen.text)],
             text |-> <<gen.text>>,
             prompt |-> prompt]
       ELSE [heap |-> hp,
             text |-> <<"Error generating response: ", gen.text>>,
             prompt |-> prompt]

clear_historyMut(hp, bot) == hp

\* RAGChatbot.clear_history()
clear_history(hp, bot) == [hp EXCEPT ![bot].history = <<>>]

\* ------------------------------------------------------------------------
\* src/build_index.py and app/retriever.py
\* ------------------------------------------------------------------------

\* file.endswith('.txt') on the file names of the inputs
EndsWithTxt(name) == name \in {"a.txt", "b.txt"}

\* model.encode: the embedding of a text, as computed by the model
Encode(t) == [of |-> t, unit |-> FALSE]

\* faiss.normalize_L2 on one vector
normalize_L2(v) == [v EXCEPT !.unit = TRUE]

DocTextsNonEmpty(docs) ==
    LET kept == SelectSeq(docs, LAMBDA d : d.content # <<>>)
    IN [i \in 1..Len(kept) |-> kept[i].content]

\* texts = [doc['content'] for doc in self.documents]
DocTexts(docs) == [i \in 1..Len(docs) |-> docs[i].content]

NoBuilder == [pc |-> "new", documents |-> <<>>, index |-> <<>>]

\* VectorIndexBuilder.build_index on the listing of the data directory
build_index(listing) ==
    LET file_paths == SelectSeq(listing, LAMBDA f : EndsWithTxt(f.name))
        documents == load_documents(file_paths)
        texts == DocTexts(documents)
        embeddings == [i \in 1..Len(texts) |-> Encode(texts[i])]
    IN IF Len(texts) = 0
       THEN \* embeddings.shape[1] of an empty array: IndexError
            [pc |-> "raised", documents |-> documents, index |-> <<>>]
       ELSE [pc |-> "built", documents |-> documents,
             index |-> [i \in 1..Len(embeddings) |-> normalize_L2(embeddings[i])]]

\* index.search(query, k): k slots, best first; the min(k, ntotal) nearest
\* positions (0-based, any order the scores give) and -1 in the slots the
\* index cannot fill.  order is the ranking of the stored vectors.
IndexSearch(index, order, k) ==
    [j \in 1..k |->
        IF j <= Len(order)
        THEN [idx |-> order[j], score |-> k - j + 1]
        ELSE [idx |-> -1, score |-> 0]]

\* the rankings a search of the index can produce for k slots
Rankings(index, k) ==
    LET n == Min(k, Len(index))
    IN {o \in [1..n -> 0..(Len(index) - 1)] :
          \A i, j \in 1..n : i # j => o[i] # o[j]}

\* seq[idx] of a Python list (negative idx counts from the end)
PyItem(seq, idx) == IF idx >= 0 THEN seq[idx + 1] ELSE seq[Len(seq) + idx + 1]

\* the guard of the result loop: if idx < len(self.documents)
HitAccepted(idx, documents) == idx < Len(documents)

\* the loop of retrieve over zip(scores[0], indices[0])
RECURSIVE RetrieveLoop(_, _, _, _)
RetrieveLoop(hits, documents, j, acc) ==
    IF j > Len(hits) THEN [raised |-> FALSE, results |-> acc]
    ELSE IF HitAccepted(hits[j].idx, documents)
         THEN IF hits[j].idx < -Len(documents)
              THEN [raised |-> TRUE, results |-> acc]   \* IndexError
              ELSE LET doc == PyItem(documents, hits[j].idx)
                   IN RetrieveLoop(hits, documents, j + 1,
                        Append(acc, [content |-> doc.content,
                                     source |-> doc.source,
                                     chunk_id |-> doc.chunk_id,
                                     score |-> hits[j].score]))
         ELSE RetrieveLoop(hits, documents, j + 1, acc)

\* DocumentRetriever.retrieve(query, k) when the search returns hits
retrieve(hits, documents) == RetrieveLoop(hits, documents, 1, <<>>)

\* ------------------------------------------------------------------------
\* api/main.py
\* ------------------------------------------------------------------------

\* Python truthiness of an Optional[str]
Truthy(x) == x # NoneVal /\ x # ""

\* len(query) of the query inputs
QueryLen(q) ==
    CASE q = "" -> 0
      [] q = "q1001" -> 1001
      [] OTHER -> 2

ChatRequestValidMut(query) ==
    query # NoneVal /\ QueryLen(query) <= QueryMaxLength

\* ChatRequest: query is required, min_length=1, max_length=1000
ChatRequestValid(query) ==
    /\ query # NoneVal
    /\ QueryLen(query) >= QueryMinLength
    /\ QueryLen(query) <= QueryMaxLength

get_chatbotMut(session_id) ==
    IF Truthy(session_id) /\ chatbot_instance = NoBot
    THEN IF session_id \notin DOMAIN sessions
         THEN IF RAGChatbot_init_ok
              THEN [raised |-> FALSE,
                    sessions |-> (session_id :> (Len(heap) + 1)) @@ sessions,
                    heap |-> Append(heap, NewChatbot),
                    bot |-> Len(heap) + 1]
              ELSE [raised |-> TRUE, sessions |-> sessions, heap |-> heap,
                    bot |-> NoBot]
         ELSE [raised |-> FALSE, sessions |-> sessions, heap |-> heap,
               bot |-> sessions[session_id]]
    ELSE [raised |-> FALSE, sessions |-> sessions, heap |-> heap,
          bot |-> chatbot_instance]

get_chatbotAlwaysNew(session_id) ==
    IF Truthy(session_id)
    THEN IF RAGChatbot_init_ok
         THEN [raised |-> FALSE,
               sessions |-> (session_id :> (Len(heap) + 1)) @@ sessions,
               heap |-> Append(heap, NewChatbot),
               bot |-> Len(heap) + 1]
         ELSE [raised |-> TRUE, sessions |-> sessions, heap |-> heap,
               bot |-> NoBot]
    ELSE [raised |-> FALSE, sessions |-> sessions, heap |-> heap,
          bot |-> chatbot_instance]

\* get_chatbot(session_id): [raised, sessions, heap, bot]
get_chatbot(session_id) ==
    IF Truthy(session_id)
    THEN IF session_id \notin DOMAIN sessions
         THEN IF RAGChatbot_init_ok
              THEN [raised |-> FALSE,
                    sessions |-> (session_id :> (Len(heap) + 1)) @@ sessions,
                    heap |-> Append(heap, NewChatbot),
                    bot |-> Len(heap) + 1]
              ELSE [raised |-> TRUE, sessions |-> sessions, heap |-> heap,
                    bot |-> NoBot]
         ELSE [raised |-> FALSE, sessions |-> sessions, heap |-> heap,
               bot |-> sessions[session_id]]
    ELSE [raised |-> FALSE, sessions |-> sessions, heap |-> heap,
          bot |-> chatbot_instance]

\* the shape of a served request and its response
NoHealth == [status |-> "", chatbot_initialized |-> FALSE]
Served(kind, session_id, query, use_history, status) ==
    [kind |-> kind, session_id |-> session_id, query |-> query,
     use_history |-> use_history, status |-> status, response |-> <<>>,
     prompted |-> FALSE, prompt |-> NoPrompt, bot |-> NoBot,
     gen_ok |-> FALSE, health |-> NoHealth]

health_checkMut == [status |-> "ok", chatbot_initialized |-> TRUE]

\* health_check(): the HealthResponse
health_check ==
    [status |-> "ok", chatbot_initialized |-> (chatbot_instance # NoBot)]

chatNoSessionBypass(query, use_history, session_id, gen) ==
    LET none == [status |-> HTTP_503, sessions |-> sessions, heap |-> heap,
                 response |-> <<>>, prompted |-> FALSE, prompt |-> NoPrompt,
                 bot |-> NoBot, gen_ok |-> FALSE]
    IN IF chatbot_instance = NoBot
       THEN none
       ELSE LET g == get_chatbot(session_id)
            IN IF g.raised
               THEN [none EXCEPT !.status = HTTP_500]
               ELSE IF g.bot = NoBot
                    THEN none
                    ELSE LET r == RAGChatbot_chat(g.heap, g.bot, query,
                                                  use_history, gen)
                         IN [status |-> HTTP_200, sessions |-> g.sessions,
                             heap |-> r.heap, response |-> r.text,
                             prompted |-> TRUE, prompt |-> r.prompt,
                             bot |-> g.bot, gen_ok |-> gen.ok]

\* chat(request): the handler body, after request validation
chat(query, use_history, session_id, gen) ==
    LET none == [status |-> HTTP_503, sessions |-> sessions, heap |-> heap,
                 response |-> <<>>, prompted |-> FALSE, prompt |-> NoPrompt,
                 bot |-> NoBot, gen_ok |-> FALSE]
    IN IF chatbot_instance = NoBot /\ ~Truthy(session_id)
       THEN none
       ELSE LET g == get_chatbot(session_id)
            IN IF g.raised
               THEN [none EXCEPT !.status = HTTP_500]
               ELSE IF g.bot = NoBot
                    THEN none
                    ELSE LET r == RAGChatbot_chat(g.heap, g.bot, query,
                                                  use_history, gen)
                         IN [status |-> HTTP_200, sessions |-> g.sessions,
                             heap |-> r.heap, response |-> r.text,
                             prompted |-> TRUE, prompt |-> r.prompt,
                             bot |-> g.bot, gen_ok |-> gen.ok]

clear_sessionMut(session_id) ==
    IF session_id \in DOMAIN sessions
    THEN [status |-> HTTP_200,
          sessions |-> [s \in DOMAIN sessions \ {session_id} |-> sessions[s]],
          heap |-> clear_history(heap, sessions[session_id])]
    ELSE [status |-> HTTP_404, sessions |-> sessions, heap |-> heap]

\* clear_session(session_id): [status, sessions, heap]
clear_session(session_id) ==
    IF session_id \in DOMAIN sessions
    THEN [status |-> HTTP_200, sessions |-> sessions,
          heap |-> clear_history(heap, sessions[session_id])]
    ELSE [status |-> HTTP_404, sessions |-> sessions, heap |-> heap]

clear_chatMut ==
    IF chatbot_instance # NoBot
    THEN [status |-> HTTP_200, heap |-> clear_history(heap, chatbot_instance)]
    ELSE [status |-> HTTP_200, heap |-> heap]

\* clear_chat(): [status, heap]
clear_chat ==
    IF chatbot_instance # NoBot
    THEN [status |-> HTTP_200, heap |-> clear_history(heap, chatbot_instance)]
    ELSE [status |-> HTTP_503, heap |-> heap]

\* ------------------------------------------------------------ the server
EmptyMap == [s \in {} |-> NoBot]

ChunkIdle ==
    /\ text = <<>> /\ chunk_size = 1 /\ overlap = 0
    /\ chunks = <<>> /\ cpc = "idle"

NoSearch == [pc |-> "none", query |-> NoneVal, k |-> 0, hits |-> <<>>,
             results |-> <<>>]
NoFiles == [saved |-> FALSE, index |-> <<>>, documents |-> <<>>]
NoRetriever == [loaded |-> FALSE, index |-> <<>>, documents |-> <<>>]

IndexIdle ==
    /\ data_dir = <<>> /\ builder = NoBuilder /\ disk = NoFiles
    /\ retriever = NoRetriever /\ search = NoSearch

NoUISession == [pc |-> "idle", api_key |-> NoneVal, arg |-> NoneVal,
                chatbot |-> NoBot]

UIIdle ==
    /\ _chatbot_instance = NoBot
    /\ ui_heap = <<>>
    /\ ui = [u \in UISessions |-> NoUISession]
    /\ ui_chats = 0

LoopIdle == inflight = {} /\ handled = <<>>

ServerIdle ==
    /\ phase = "created"
    /\ startup_log = "none"
    /\ env = [api_key |-> FALSE, index_files |-> FALSE]
    /\ chatbot_instance = NoBot
    /\ sessions = EmptyMap
    /\ heap = <<>>
    /\ last = Served("none", NoneVal, NoneVal, FALSE, 0)
    /\ served = 0

\* the module has been imported: chatbot_instance = None, sessions = {}
Init ==
    /\ phase = "created"
    /\ startup_log = "none"
    /\ env \in [api_key : BOOLEAN, index_files : BOOLEAN]
    /\ chatbot_instance = NoBot
    /\ sessions = EmptyMap
    /\ heap = <<>>
    /\ last = Served("none", NoneVal, NoneVal, FALSE, 0)
    /\ served = 0
    /\ ChunkIdle
    /\ IndexIdle
    /\ UIIdle
    /\ LoopIdle

\* src/build_index.py run as a script: save_index writes the index files
SaveIndex ==
    /\ ~env.index_files
    /\ env' = [env EXCEPT !.index_files = TRUE]
    /\ UNCHANGED <<phase, startup_log, chatbot_instance, sessions, heap, last,
                   served>>
    /\ UNCHANGED <<chunkVars, indexVars, uiVars, loopVars>>

\* lifespan, up to the yield
Startup ==
    /\ phase = "created"
    /\ phase' = "serving"
    /\ IF RAGChatbot_init_ok
       THEN /\ heap' = Append(heap, NewChatbot)
            /\ chatbot_instance' = Len(heap) + 1
            /\ startup_log' = "Chatbot initialized successfully"
       ELSE /\ heap' = heap
            /\ chatbot_instance' = NoBot
            /\ startup_log' = "Failed to initialize chatbot"
    /\ UNCHANGED <<env, sessions, last, served>>
    /\ UNCHANGED <<chunkVars, indexVars, uiVars, loopVars>>

\* lifespan, after the yield
Shutdown ==
    /\ phase = "serving"
    /\ phase' = "stopped"
    /\ chatbot_instance' = NoBot
    /\ UNCHANGED <<startup_log, env, sessions, heap, last, served>>
    /\ UNCHANGED <<chunkVars, indexVars, uiVars, loopVars>>

Serving == phase = "serving" /\ served < MaxRequests

\* GET /health
Health ==
    /\ Serving
    /\ served' = served + 1
    /\ last' = [Served("health", NoneVal, NoneVal, FALSE, HTTP_200)
                  EXCEPT !.health = health_check]
    /\ UNCHANGED <<phase, startup_log, env, chatbot_instance, sessions, heap>>
    /\ UNCHANGED <<chunkVars, indexVars, uiVars, loopVars>>

\* POST /chat
Chat ==
    /\ Serving
    /\ \E query \in QueryInputs, use_history \in BOOLEAN,
          session_id \in ChatSessionInputs, gen \in GenOutcomes :
          /\ served' = served + 1
          /\ IF ~ChatRequestValid(query)
             THEN /\ last' = Served("chat", session_id, query, use_history, HTTP_422)
                  /\ UNCHANGED <<sessions, heap>>
             ELSE LET r == chat(query, use_history, session_id, gen)
                  IN /\ sessions' = r.sessions
                     /\ heap' = r.heap
                     /\ last' = [Served("chat", session_id, query, use_history, r.status)
                                   EXCEPT !.response = r.response,
                                          !.prompted = r.prompted,
                                          !.prompt = r.prompt,
                                          !.bot = r.bot,
                                          !.gen_ok = r.gen_ok]
    /\ UNCHANGED <<phase, startup_log, env, chatbot_instance>>
    /\ UNCHANGED <<chunkVars, indexVars, uiVars, loopVars>>

\* DELETE /chat/session/{session_id}
ClearSession ==
    /\ Serving
    /\ \E session_id \in SessionIds :
          LET r == clear_session(session_id)
          IN /\ sessions' = r.sessions
             /\ heap' = r.heap
             /\ last' = Served("clear_session", session_id, NoneVal, FALSE, r.status)
    /\ served' = served + 1
    /\ UNCHANGED <<phase, startup_log, env, chatbot_instance>>
    /\ UNCHANGED <<chunkVars, indexVars, uiVars, loopVars>>

\* POST /chat/clear
ClearChat ==
    /\ Serving
    /\ LET r == clear_chat
       IN /\ heap' = r.heap
          /\ last' = Served("clear_chat", NoneVal, NoneVal, FALSE, r.status)
    /\ served' = served + 1
    /\ UNCHANGED <<phase, startup_log, env, chatbot_instance, sessions>>
    /\ UNCHANGED <<chunkVars, indexVars, uiVars, loopVars>>

Next ==
    \/ SaveIndex
    \/ Startup
    \/ Shutdown
    \/ Health
    \/ Chat
    \/ ClearSession
    \/ ClearChat

Spec == Init /\ [][Next]_vars

\* ------------------------------------------------- chunk_text, applied
Texts == UNION {[1..n -> Chars] : n \in 0..MaxTextLen}

InitChunk ==
    /\ phase = "created"
    /\ startup_log = "none"
    /\ env = [api_key |-> FALSE, index_files |-> FALSE]
    /\ chatbot_instance = NoBot
    /\ sessions = EmptyMap
    /\ heap = <<>>
    /\ last = Served("none", NoneVal, NoneVal, FALSE, 0)
    /\ served = 0
    /\ text \in Texts
    /\ chunk_size \in 1..MaxChunkSize
    /\ overlap \in -1..(MaxChunkSize + 1)
    /\ chunks = <<>>
    /\ cpc = "call"
    /\ IndexIdle
    /\ UIIdle
    /\ LoopIdle

ChunkText ==
    /\ cpc = "call"
    /\ LET r == chunk_text(text, chunk_size, overlap)
       IN /\ chunks' = r.chunks
          /\ cpc' = IF r.raised THEN "raised" ELSE "returned"
    /\ UNCHANGED <<text, chunk_size, overlap>>
    /\ UNCHANGED <<serverVars, indexVars, uiVars, loopVars>>

NextChunk == ChunkText

SpecChunk == InitChunk /\ [][NextChunk]_vars

\* ------------------------------------- build_index, save, load, retrieve
FileTexts == UNION {[1..n -> FileChars] : n \in 0..MaxFileLen}

\* the listings of a data directory: distinct names, any order, any content
Listings ==
    UNION {{l \in [1..n -> [name : FileNames, content : FileTexts]] :
              \A i, j \in 1..n : i # j => l[i].name # l[j].name}
           : n \in 0..MaxFiles}

InitIndex ==
    /\ ServerIdle
    /\ ChunkIdle
    /\ UIIdle
    /\ LoopIdle
    /\ data_dir \in Listings
    /\ builder = NoBuilder
    /\ disk = NoFiles
    /\ retriever = NoRetriever
    /\ search = NoSearch

\* builder.build_index()
BuildIndex ==
    /\ builder.pc = "new"
    /\ builder' = build_index(data_dir)
    /\ UNCHANGED <<data_dir, disk, retriever, search>>
    /\ UNCHANGED <<serverVars, chunkVars, uiVars, loopVars>>

\* builder.save_index(), after build_index returned
SaveIndexFiles ==
    /\ builder.pc = "built"
    /\ ~disk.saved
    /\ disk' = [saved |-> TRUE, index |-> builder.index,
                documents |-> builder.documents]
    /\ UNCHANGED <<data_dir, builder, retriever, search>>
    /\ UNCHANGED <<serverVars, chunkVars, uiVars, loopVars>>

\* DocumentRetriever.__init__: reads both files (raises when one is missing)
LoadRetriever ==
    /\ disk.saved
    /\ ~retriever.loaded
    /\ retriever' = [loaded |-> TRUE, index |-> disk.index,
                     documents |-> disk.documents]
    /\ UNCHANGED <<data_dir, builder, disk, search>>
    /\ UNCHANGED <<serverVars, chunkVars, uiVars, loopVars>>

\* retriever.retrieve(query, k)
Retrieve ==
    /\ retriever.loaded
    /\ \E query \in GoodQueries, k \in 1..MaxK :
         \E order \in Rankings(retriever.index, k) :
            LET hits == IndexSearch(retriever.index, order, k)
                r == retrieve(hits, retriever.documents)
            IN search' = [pc |-> IF r.raised THEN "raised" ELSE "returned",
                          query |-> query, k |-> k, hits |-> hits,
                          results |-> r.results]
    /\ UNCHANGED <<data_dir, builder, disk, retriever>>
    /\ UNCHANGED <<serverVars, chunkVars, uiVars, loopVars>>

NextIndex ==
    \/ BuildIndex
    \/ SaveIndexFiles
    \/ LoadRetriever
    \/ Retrieve

SpecIndex == InitIndex /\ [][NextIndex]_vars

\* ------------------------------------------------- app/streamlit_app.py
\* Streamlit runs the script of every browser session in a thread of its
\* own, all in one process: the threads share the module global
\* _chatbot_instance of app/chatbot.py, and a thread can be preempted
\* between the test, the assignment and the return of get_chatbot.

\* os.getenv('GEMINI_API_KEY')
EnvApiKey == IF env.api_key THEN "env" ELSE NoneVal

\* a or b of two Optional[str]
OrElse(a, b) == IF Truthy(a) THEN a ELSE b

InitUI ==
    /\ phase = "created"
    /\ startup_log = "none"
    /\ env \in [api_key : BOOLEAN, index_files : BOOLEAN]
    /\ chatbot_instance = NoBot
    /\ sessions = EmptyMap
    /\ heap = <<>>
    /\ last = Served("none", NoneVal, NoneVal, FALSE, 0)
    /\ served = 0
    /\ ChunkIdle
    /\ IndexIdle
    /\ UIIdle
    /\ LoopIdle

\* main() up to initialize_chatbot: the sidebar stores a typed key, and a
\* session without a chatbot calls get_chatbot(api_key) if it has a key
ScriptStart(u) ==
    /\ ui[u].pc = "idle"
    /\ ui[u].chatbot = NoBot
    /\ \E typed \in ApiKeyInputs :
         LET key == IF Truthy(typed) THEN typed ELSE ui[u].api_key
             api_key == OrElse(key, EnvApiKey)
         IN ui' = [ui EXCEPT ![u] =
                     [@ EXCEPT !.api_key = key,
                               !.arg = IF Truthy(api_key) THEN api_key ELSE NoneVal,
                               !.pc = IF Truthy(api_key) THEN "check" ELSE "idle"]]
    /\ UNCHANGED <<_chatbot_instance, ui_heap, ui_chats>>
    /\ UNCHANGED <<serverVars, chunkVars, indexVars, loopVars>>

\* get_chatbot: if _chatbot_instance is None
GetChatbotTest(u) ==
    /\ ui[u].pc = "check"
    /\ ui' = [ui EXCEPT ![u].pc =
                IF _chatbot_instance = NoBot THEN "create" ELSE "return"]
    /\ UNCHANGED <<_chatbot_instance, ui_heap, ui_chats>>
    /\ UNCHANGED <<serverVars, chunkVars, indexVars, loopVars>>

\* get_chatbot: _chatbot_instance = RAGChatbot(api_key); the constructor
\* raises without the index files, and initialize_chatbot returns None
GetChatbotCreate(u) ==
    /\ ui[u].pc = "create"
    /\ IF env.index_files
       THEN /\ ui_heap' = Append(ui_heap, [history |-> <<>>,
                                           api_key |-> ui[u].arg])
            /\ _chatbot_instance' = Len(ui_heap) + 1
            /\ ui' = [ui EXCEPT ![u].pc = "return"]
       ELSE /\ ui' = [ui EXCEPT ![u].pc = "idle"]
            /\ UNCHANGED <<_chatbot_instance, ui_heap>>
    /\ UNCHANGED ui_chats
    /\ UNCHANGED <<serverVars, chunkVars, indexVars, loopVars>>

\* get_chatbot: return _chatbot_instance; st.session_state.chatbot = chatbot
GetChatbotReturn(u) ==
    /\ ui[u].pc = "return"
    /\ ui' = [ui EXCEPT ![u].pc = "idle", ![u].chatbot = _chatbot_instance]
    /\ UNCHANGED <<_chatbot_instance, ui_heap, ui_chats>>
    /\ UNCHANGED <<serverVars, chunkVars, indexVars, loopVars>>

\* the chat input: st.session_state.chatbot.chat(prompt)
UIChat(u) ==
    /\ ui[u].pc = "idle"
    /\ ui[u].chatbot # NoBot
    /\ ui_chats < MaxUIChats
    /\ \E query \in GoodQueries, gen \in GenOutcomes :
         ui_heap' = RAGChatbot_chat(ui_heap, ui[u].chatbot, query, TRUE, gen).heap
    /\ ui_chats' = ui_chats + 1
    /\ UNCHANGED <<_chatbot_instance, ui>>
    /\ UNCHANGED <<serverVars, chunkVars, indexVars, loopVars>>

\* the "Clear Chat History" button
UIClear(u) ==
    /\ ui[u].pc = "idle"
    /\ ui[u].chatbot # NoBot
    /\ ui_heap' = clear_history(ui_heap, ui[u].chatbot)
    /\ UNCHANGED <<_chatbot_instance, ui, ui_chats>>
    /\ UNCHANGED <<serverVars, chunkVars, indexVars, loopVars>>

NextUI ==
    \/ SaveIndex
    \/ \E u \in UISessions : ScriptStart(u)
    \/ \E u \in UISessions : GetChatbotTest(u)
    \/ \E u \in UISessions : GetChatbotCreate(u)
    \/ \E u \in UISessions : GetChatbotReturn(u)
    \/ \E u \in UISessions : UIChat(u)
    \/ \E u \in UISessions : UIClear(u)

SpecUI == InitUI /\ [][NextUI]_vars

\* ------------------------------------------- requests in flight together
\* uvicorn accepts connections concurrently and runs the handlers on one
\* event loop.  `async def chat` contains no await (chatbot.chat is a plain
\* blocking call), so a handler that has started runs to its return before
\* the loop starts another one; the order of the handlers is arbitrary.

InitLoop ==
    /\ phase = "created"
    /\ startup_log = "none"
    /\ env \in [api_key : BOOLEAN, index_files : BOOLEAN]
    /\ chatbot_instance = NoBot
    /\ sessions = EmptyMap
    /\ heap = <<>>
    /\ last = Served("none", NoneVal, NoneVal, FALSE, 0)
    /\ served = 0
    /\ ChunkIdle
    /\ IndexIdle
    /\ UIIdle
    /\ LoopIdle

\* a POST /chat request with a session id has been received and validated
Arrive ==
    /\ phase = "serving"
    /\ Cardinality(inflight) + Len(handled) < MaxInFlight
    /\ \E query \in GoodQueries, use_history \in BOOLEAN,
          session_id \in SessionIds :
          inflight' = inflight \cup
              {[id |-> Cardinality(inflight) + Len(handled) + 1,
                query |-> query, use_history |-> use_history,
                session_id |-> session_id]}
    /\ UNCHANGED handled
    /\ UNCHANGED <<serverVars, chunkVars, indexVars, uiVars>>

\* the event loop runs the handler of one of the requests in flight
HandleChat ==
    /\ phase = "serving"
    /\ \E req \in inflight, gen \in GenOutcomes :
         LET r == chat(req.query, req.use_history, req.session_id, gen)
         IN /\ sessions' = r.sessions
            /\ heap' = r.heap
            /\ last' = [Served("chat", req.session_id, req.query,
                               req.use_history, r.status)
                          EXCEPT !.response = r.response,
                                 !.prompted = r.prompted,
                                 !.prompt = r.prompt,
                                 !.bot = r.bot,
                                 !.gen_ok = r.gen_ok]
            /\ inflight' = inflight \ {req}
            /\ handled' = Append(handled,
                             [id |-> req.id, session_id |-> req.session_id,
                              query |-> req.query, status |-> r.status,
                              gen_ok |-> r.gen_ok, response |-> r.response])
    /\ served' = served + 1
    /\ UNCHANGED <<phase, startup_log, env, chatbot_instance>>
    /\ UNCHANGED <<chunkVars, indexVars, uiVars>>

NextLoop ==
    \/ Startup
    \/ Arrive
    \/ HandleChat

SpecLoop == InitLoop /\ [][NextLoop]_vars

\* ------------------------------------------------------------------------
\* Properties
\* ------------------------------------------------------------------------

\* what a client can observe of a session / of the default chatbot
SessionView(t) ==
    IF t \in DOMAIN sessions
    THEN <<TRUE, heap[sessions[t]].history>>
    ELSE <<FALSE, <<>>>>
DefaultView ==
    IF chatbot_instance # NoBot
    THEN <<TRUE, heap[chatbot_instance].history>>
    ELSE <<FALSE, <<>>>>

\* the step serves one request of the given kinds
Serves(kinds) == served' = served + 1 /\ last'.kind \in kinds

\* C1: a POST /chat, DELETE /chat/session/{id} or POST /chat/clear request
\* with a non-empty session id s changes the history of s only (every other
\* session and the default chatbot keep theirs); a request without a session
\* id leaves the history of every session as it was.
C1_SessionIsolation ==
    [][Serves({"chat", "clear_session", "clear_chat"}) =>
         IF Truthy(last'.session_id)
         THEN /\ \A t \in SessionIds \ {last'.session_id} :
                    SessionView(t)' = SessionView(t)
              /\ DefaultView' = DefaultView
         ELSE \A t \in SessionIds : SessionView(t)' = SessionView(t)]_vars

C1_Witness ==
    /\ last.kind = "chat" /\ last.session_id = "s1" /\ last.gen_ok
    /\ "s2" \in DOMAIN sessions
    /\ heap[sessions["s2"]].history # <<>>
    /\ chatbot_instance # NoBot
    /\ heap[chatbot_instance].history # <<>>
    /\ heap[sessions["s1"]].history # heap[sessions["s2"]].history

\* lines a and b occur next to each other, in this order, in the lines h
ContainsExchange(h, a, b) ==
    \E i \in 1..(Len(h) - 1) : h[i] = a /\ h[i + 1] = b

\* C2: when a POST /chat with use_history=true follows a POST /chat of the
\* same session_id with use_history=true whose generation succeeded, both are
\* answered 200 and the second prompt holds the first query and answer.
C2_SecondChatSeesFirst ==
    [][(/\ Serves({"chat"})
        /\ last.kind = "chat" /\ last.gen_ok /\ last.use_history
        /\ last'.session_id = last.session_id
        /\ last'.use_history
        /\ ChatRequestValid(last'.query))
       => /\ last.status = HTTP_200
          /\ last'.status = HTTP_200
          /\ last'.prompted
          /\ ContainsExchange(last'.prompt.history,
                              <<"User", last.query>>,
                              <<"Assistant", last.response[1]>>)]_vars

C2_Witness ==
    /\ last.kind = "chat" /\ last.session_id = "s1" /\ last.use_history
    /\ last.status = HTTP_200 /\ last.gen_ok
    /\ last.query = "q2"
    /\ last.prompt.history = <<<<"User", "q1">>, <<"Assistant", "a1">>>>
    /\ Len(heap[sessions["s1"]].history) = 4

\* the history stored in chatbot object b (empty when b does not exist yet)
StoredHistory(b) == IF b \in 1..Len(heap) THEN heap[b].history ELSE <<>>

\* C3: the history of a prompt built with use_history is exactly the last
\* min(6, n) of the n stored messages of the chatbot, in their order.
C3_PromptHistoryTruncated ==
    [][(Serves({"chat"}) /\ last'.prompted /\ last'.use_history) =>
         LET h == StoredHistory(last'.bot)
             n == Len(h)
             m == Min(HistoryWindow, n)
             ph == last'.prompt.history
         IN /\ Len(ph) = m
            /\ \A i \in 1..m :
                 /\ ph[i][2] = h[n - m + i].content
                 /\ ph[i][1] = IF h[n - m + i].role = "user"
                               THEN "User" ELSE "Assistant"]_vars

C3_Witness ==
    /\ last.kind = "chat" /\ last.prompted /\ last.use_history
    /\ ~last.gen_ok
    /\ Len(heap[last.bot].history) = 8
    /\ Len(last.prompt.history) = HistoryWindow
    /\ heap[last.bot].history[1].content # heap[last.bot].history[3].content

\* C4: no step removes an entry of the session map or rebinds it.
C4_NoEviction ==
    [][\A s \in DOMAIN sessions :
          s \in DOMAIN sessions' /\ sessions'[s] = sessions[s]]_vars

C4_Witness ==
    /\ phase = "stopped"
    /\ last.kind = "clear_session" /\ last.status = HTTP_200
    /\ DOMAIN sessions = SessionIds

\* C5: DELETE /chat/session/{id} answers 200 and leaves the history of id
\* empty when id is in the session map, and answers 404 and changes nothing
\* when it is not.
C5_ClearSession ==
    [][Serves({"clear_session"}) =>
         LET id == last'.session_id
         IN IF id \in DOMAIN sessions
            THEN /\ last'.status = HTTP_200
                 /\ id \in DOMAIN sessions'
                 /\ heap'[sessions'[id]].history = <<>>
            ELSE /\ last'.status = HTTP_404
                 /\ UNCHANGED <<phase, startup_log, env, chatbot_instance,
                                sessions, heap>>]_vars

C5_Witness ==
    /\ last.kind = "clear_session" /\ last.status = HTTP_200
    /\ last.session_id = "s1"
    /\ heap[sessions["s1"]].history = <<>>
    /\ "s2" \in DOMAIN sessions
    /\ heap[sessions["s2"]].history # <<>>

\* C6: POST /chat/clear answers 200 and leaves the default chatbot's history
\* empty when the default chatbot is initialised, and answers 503 and changes
\* nothing when it is not.
C6_ClearChat ==
    [][Serves({"clear_chat"}) =>
         IF chatbot_instance # NoBot
         THEN /\ last'.status = HTTP_200
              /\ chatbot_instance' = chatbot_instance
              /\ heap'[chatbot_instance'].history = <<>>
         ELSE /\ last'.status = HTTP_503
              /\ UNCHANGED <<phase, startup_log, env, chatbot_instance,
                             sessions, heap>>]_vars

C6_Witness ==
    /\ last.kind = "clear_chat" /\ last.status = HTTP_200
    /\ heap[chatbot_instance].history = <<>>
    /\ \E s \in DOMAIN sessions : heap[sessions[s]].history # <<>>

\* C7: a POST /chat whose query is empty or missing is answered 422, no
\* chatbot is consulted, no session is created and no history changes.
C7_EmptyQueryRejected ==
    [][(Serves({"chat"}) /\ last'.query \in {"", NoneVal}) =>
         /\ last'.status = HTTP_422
         /\ ~last'.prompted
         /\ last'.bot = NoBot
         /\ UNCHANGED <<chatbot_instance, sessions, heap>>]_vars

C7_Witness ==
    /\ last.kind = "chat" /\ last.query = "" /\ last.status = HTTP_422
    /\ last.session_id = "s1"
    /\ "s1" \notin DOMAIN sessions
    /\ RAGChatbot_init_ok
    /\ phase = "serving"

\* C8: while the server is serving, GET /health answers 200 with status
\* "ok", and its chatbot_initialized flag is true exactly when lifespan
\* created the default chatbot at startup.
C8_Health ==
    /\ phase = "serving" =>
         /\ health_check.status = "ok"
         /\ health_check.chatbot_initialized
              <=> (startup_log = "Chatbot initialized successfully")
    /\ last.kind = "health" =>
         /\ last.status = HTTP_200
         /\ last.health.status = "ok"
         /\ last.health.chatbot_initialized
              <=> (startup_log = "Chatbot initialized successfully")

C8_Witness ==
    /\ phase = "serving"
    /\ startup_log = "Failed to initialize chatbot"
    /\ last.kind = "health" /\ last.status = HTTP_200
    /\ ~last.health.chatbot_initialized
    /\ DOMAIN sessions # {}

\* ws has the words s as a contiguous slice
IsSliceOf(s, ws) ==
    \E a \in 1..(Len(ws) + 1) : \E b \in (a - 1)..Len(ws) :
        s = SubSeq(ws, a, b)

\* C9: every chunk returned by chunk_text has at most chunk_size words and
\* is a contiguous slice of the words of the text.
C9_ChunksBounded ==
    cpc = "returned" =>
        \A j \in 1..Len(chunks) :
            /\ Len(Split(chunks[j])) <= chunk_size
            /\ IsSliceOf(Split(chunks[j]), Split(text))

C9_Witness ==
    /\ cpc = "returned"
    /\ chunk_size = 2
    /\ Len(chunks) >= 2
    /\ Len(Split(chunks[1])) = chunk_size
    /\ text # Join(Split(text))

\* C10: for a text of more than chunk_size words and 0 <= overlap <
\* chunk_size, chunk j starts (j - 1) * (chunk_size - overlap) words into the
\* text, so each chunk after the first begins with the last `overlap` words
\* of the chunk before it and has at least one word more.
C10_ChunksOverlap ==
    (/\ cpc # "call"
     /\ Len(Split(text)) > chunk_size
     /\ 0 <= overlap /\ overlap < chunk_size)
    => /\ cpc = "returned"
       /\ Len(chunks) >= 2
       /\ LET words == Split(text)
              step == chunk_size - overlap
          IN \A j \in 1..Len(chunks) :
                /\ Split(chunks[j]) =
                     SubSeq(words, (j - 1) * step + 1,
                            Min((j - 1) * step + chunk_size, Len(words)))
                /\ j > 1 =>
                     LET prev == Split(chunks[j - 1])
                         cur == Split(chunks[j])
                     IN /\ Len(cur) > overlap
                        /\ SubSeq(cur, 1, overlap) =
                             SubSeq(prev, Len(prev) - overlap + 1, Len(prev))

C10_Witness ==
    /\ cpc = "returned"
    /\ Len(Split(text)) > chunk_size
    /\ overlap = 1 /\ chunk_size = 2
    /\ Len(chunks) = 3
    /\ Split(chunks[2])[1] # Split(chunks[2])[2]

\* the user/assistant pair of a query and its answer
Exchange(query, answer) ==
    <<[role |-> "user", content |-> query],
      [role |-> "assistant", content |-> answer]>>

\* C13 (as claimed): POST /chat with a valid query answers 503 exactly when
\* the default chatbot is not initialised and the session_id is missing or
\* empty, changing nothing; with a non-empty session_id the request is served
\* by that session's chatbot, created on first use.
C13_SessionAlwaysServed ==
    [][(Serves({"chat"}) /\ ChatRequestValid(last'.query)) =>
         /\ last'.status = HTTP_503
              <=> (chatbot_instance = NoBot /\ ~Truthy(last'.session_id))
         /\ last'.status = HTTP_503 =>
              UNCHANGED <<phase, startup_log, env, chatbot_instance,
                          sessions, heap>>
         /\ Truthy(last'.session_id) =>
              /\ last'.status = HTTP_200
              /\ last'.session_id \in DOMAIN sessions'
              /\ last'.bot = sessions'[last'.session_id]]_vars

\* C13 (amended): POST /chat with a valid query answers 503 exactly when the
\* default chatbot is not initialised and the session_id is missing or empty,
\* changing nothing; with a non-empty session_id it is served (200) by that
\* session's chatbot, created on first use, whenever the session exists or a
\* chatbot can be constructed, and is answered 500 without creating a
\* session when the construction raises.
C13_SessionServedOr500 ==
    [][(Serves({"chat"}) /\ ChatRequestValid(last'.query)) =>
         /\ last'.status = HTTP_503
              <=> (chatbot_instance = NoBot /\ ~Truthy(last'.session_id))
         /\ last'.status = HTTP_503 =>
              UNCHANGED <<phase, startup_log, env, chatbot_instance,
                          sessions, heap>>
         /\ Truthy(last'.session_id) =>
              IF last'.session_id \in DOMAIN sessions \/ RAGChatbot_init_ok
              THEN /\ last'.status = HTTP_200
                   /\ last'.session_id \in DOMAIN sessions'
                   /\ last'.bot = sessions'[last'.session_id]
                   /\ last'.session_id \notin DOMAIN sessions =>
                        /\ last'.bot = Len(heap) + 1
                        /\ Len(heap') = Len(heap) + 1
              ELSE /\ last'.status = HTTP_500
                   /\ UNCHANGED <<phase, startup_log, env, chatbot_instance,
                                  sessions, heap>>]_vars

C13_Witness ==
    /\ phase = "serving"
    /\ startup_log = "Failed to initialize chatbot"
    /\ chatbot_instance = NoBot
    /\ last.kind = "chat" /\ last.session_id = "s1"
    /\ last.status = HTTP_200 /\ last.gen_ok
    /\ heap[sessions["s1"]].history = Exchange(last.query, last.response[1])

\* C14: a POST /chat with use_history=false builds its prompt with an empty
\* history whatever is stored, a successful generation still appends the
\* exchange, and the next use_history=true request on the same chatbot has
\* the exchange in its prompt.
C14_NoHistoryStillRecorded ==
    [][/\ (Serves({"chat"}) /\ last'.prompted /\ ~last'.use_history) =>
            /\ last'.prompt.history = <<>>
            /\ last'.gen_ok =>
                 heap'[last'.bot].history =
                   StoredHistory(last'.bot)
                     \o Exchange(last'.query, last'.response[1])
       /\ (/\ Serves({"chat"})
           /\ last.kind = "chat" /\ last.gen_ok /\ ~last.use_history
           /\ last'.prompted /\ last'.bot = last.bot
           /\ last'.use_history)
          => ContainsExchange(last'.prompt.history,
                              <<"User", last.query>>,
                              <<"Assistant", last.response[1]>>)]_vars

C14_Witness ==
    /\ last.kind = "chat" /\ last.prompted /\ ~last.use_history
    /\ last.gen_ok
    /\ last.prompt.history = <<>>
    /\ Len(heap[last.bot].history) = 4
    /\ heap[last.bot].history[1].content # last.query

\* C16: when the language-model call fails, chat returns a text that begins
\* with "Error generating response:", the stored history of the chatbot is
\* what it was before the call, and POST /chat answers 200 with that text.
C16_GenerationFailure ==
    [][(Serves({"chat"}) /\ last'.prompted /\ ~last'.gen_ok) =>
         /\ last'.status = HTTP_200
         /\ Len(last'.response) >= 1
         /\ last'.response[1] = "Error generating response: "
         /\ heap'[last'.bot].history = StoredHistory(last'.bot)]_vars

C16_Witness ==
    /\ last.kind = "chat" /\ last.prompted /\ ~last.gen_ok
    /\ last.status = HTTP_200
    /\ last.response = <<"Error generating response: ", "quota">>
    /\ Len(heap[last.bot].history) = 2
    /\ heap[last.bot].history[1].content # last.query

\* a history is a sequence of user/assistant pairs
WellFormedHistory(h) ==
    /\ Len(h) % 2 = 0
    /\ \A i \in 1..Len(h) :
         h[i].role = IF i % 2 = 1 THEN "user" ELSE "assistant"

\* C17: every stored history has even length and alternates user, assistant
\* from a user entry on; a history changes only by a successful chat, which
\* appends the query and the answer generated for it, or by a clear, which
\* empties it; a new chatbot starts with an empty history.
C17_HistoryShape ==
    /\ [](\A b \in 1..Len(heap) : WellFormedHistory(heap[b].history))
    /\ [][/\ Len(heap') >= Len(heap)
          /\ \A b \in 1..Len(heap') :
               \/ heap'[b].history = StoredHistory(b)
               \/ /\ last'.kind = "chat" /\ last'.gen_ok
                  /\ last'.status = HTTP_200 /\ last'.bot = b
                  /\ heap'[b].history =
                       StoredHistory(b)
                         \o Exchange(last'.query, last'.response[1])
               \/ /\ b <= Len(heap)
                  /\ heap'[b].history = <<>>
                  /\ \/ /\ last'.kind = "clear_session"
                        /\ last'.session_id \in DOMAIN sessions
                        /\ sessions[last'.session_id] = b
                     \/ /\ last'.kind = "clear_chat"
                        /\ chatbot_instance = b
                  /\ last'.status = HTTP_200]_vars

C17_Witness ==
    /\ \E b \in 1..Len(heap) :
         /\ Len(heap[b].history) = 6
         /\ heap[b].history[1].content # heap[b].history[3].content
    /\ \E b \in 1..Len(heap) : heap[b].history = <<>>
    /\ last.kind = "clear_session"

\* the words of chunk j that chunk j - 1 did not already hold
RECURSIVE NewWords(_, _, _)
NewWords(cs, j, ov) ==
    IF j > Len(cs) THEN <<>>
    ELSE LET ws == Split(cs[j])
         IN SubSeq(ws, (IF j = 1 THEN 0 ELSE ov) + 1, Len(ws))
              \o NewWords(cs, j + 1, ov)

\* C18: for 0 <= overlap < chunk_size, chunk_text returns a non-empty list
\* of chunks, and the first chunk followed by every later chunk without its
\* first `overlap` words is the word sequence of the text.
C18_ChunksCoverText ==
    (cpc # "call" /\ 0 <= overlap /\ overlap < chunk_size)
    => /\ cpc = "returned"
       /\ Len(chunks) >= 1
       /\ NewWords(chunks, 1, overlap) = Split(text)

C18_Witness ==
    /\ cpc = "returned"
    /\ chunk_size = 3 /\ overlap = 2
    /\ Len(chunks) = 2
    /\ Len(Split(text)) = 4
    /\ Split(text)[1] # Split(text)[4]
    /\ text # Join(Split(text))

\* C11: after build_index the index holds one vector per entry of documents,
\* and the vector at position i is the (normalised) embedding of the content
\* of documents[i]; the same holds of what a retriever loads.
C11_IndexParallel ==
    /\ builder.pc = "built" =>
         /\ Len(builder.index) = Len(builder.documents)
         /\ \A i \in 1..Len(builder.documents) :
               builder.index[i] = normalize_L2(Encode(builder.documents[i].content))
    /\ retriever.loaded =>
         /\ Len(retriever.index) = Len(retriever.documents)
         /\ \A i \in 1..Len(retriever.documents) :
               retriever.index[i].of = retriever.documents[i].content

C11_Witness ==
    /\ retriever.loaded
    /\ Len(retriever.documents) = 2
    /\ retriever.documents[1].content = <<>>
    /\ retriever.documents[2].content # <<>>
    /\ Len(data_dir) = 2

\* the positions the search reported as matches, in slot order
RECURSIVE Matches(_, _)
Matches(hits, j) ==
    IF j > Len(hits) THEN <<>>
    ELSE (IF hits[j].idx >= 0 THEN <<hits[j].idx>> ELSE <<>>)
           \o Matches(hits, j + 1)

\* C12: retrieve returns at most k results, one for every slot the search
\* filled, in slot order, each the metadata of the chunk at the reported
\* position; a slot of -1 gives no result, so no chunk is returned twice.
C12_TopK ==
    search.pc = "returned" =>
        LET m == Matches(search.hits, 1)
            res == search.results
        IN /\ Len(res) <= search.k
           /\ Len(res) = Len(m)
           /\ \A i \in 1..Len(res) :
                 /\ res[i].content = retriever.documents[m[i] + 1].content
                 /\ res[i].source = retriever.documents[m[i] + 1].source
                 /\ res[i].chunk_id = retriever.documents[m[i] + 1].chunk_id
           /\ \A i, j \in 1..Len(res) :
                 i # j => <<res[i].source, res[i].chunk_id>>
                            # <<res[j].source, res[j].chunk_id>>

\* C15: get_chatbot of app/chatbot.py creates at most one RAGChatbot, every
\* UI session that got a chatbot holds that one object (and so its one
\* history), and without an instance no object has been created.
C15_SingleInstance ==
    /\ Len(ui_heap) <= 1
    /\ \A u \in UISessions :
         ui[u].chatbot # NoBot => ui[u].chatbot = _chatbot_instance
    /\ _chatbot_instance = NoBot => ui_heap = <<>>

\* the exchanges of the handled requests of session s whose generation
\* succeeded, in handling order
RECURSIVE HandledExchanges(_, _)
HandledExchanges(s, j) ==
    IF j > Len(handled) THEN <<>>
    ELSE (IF handled[j].session_id = s /\ handled[j].gen_ok
          THEN Exchange(handled[j].query, handled[j].response[1])
          ELSE <<>>)
           \o HandledExchanges(s, j + 1)

\* C19: whatever POST /chat requests are in flight together, every session
\* id has one chatbot (no chatbot is created and dropped), and its history
\* is one contiguous user/assistant pair for each request of the session
\* whose generation succeeded.
C19_NoLostExchange ==
    /\ Len(heap) = Cardinality(DOMAIN sessions)
                     + (IF chatbot_instance # NoBot THEN 1 ELSE 0)
    /\ \A s, t \in DOMAIN sessions : s # t => sessions[s] # sessions[t]
    /\ \A s \in SessionIds :
         IF s \in DOMAIN sessions
         THEN heap[sessions[s]].history = HandledExchanges(s, 1)
         ELSE HandledExchanges(s, 1) = <<>>

C19_Witness ==
    /\ inflight = {}
    /\ Len(handled) = 3
    /\ \A j \in 1..3 : handled[j].session_id = "s1" /\ handled[j].gen_ok
    /\ handled[1].id = 3 /\ handled[2].id = 1
    /\ handled[1].query # handled[2].query
    /\ Len(heap[sessions["s1"]].history) = 6

====
